---- MODULE Spec2Model ----
(***************************************************************************)
(* State machine of the App component of ai-notes-gen (App.tsx, held as    *)
(* src/unnamed/part_000) with the types of src/types.ts.                   *)
(*                                                                         *)
(* JavaScript values are written as records so that values of different    *)
(* shapes can be compared:                                                 *)
(*   null            [null |-> TRUE]                                       *)
(*   a string slot   [str |-> "..."]                                       *)
(*   a boolean       [bool |-> TRUE]                                       *)
(*   an array        [arr |-> << ... >>]                                   *)
(*   a plain object  a record of its fields                                *)
(* Texts (the textarea value, sourceText) are sequences of characters, so  *)
(* that String.prototype.trim is computed rather than assumed.             *)
(* A localStorage value is null or a string; a string is written           *)
(* [json |-> v] when it is the JSON text of the value v and [raw |-> s]    *)
(* when it is not JSON text at all.                                        *)
(***************************************************************************)
EXTENDS Integers, Sequences, FiniteSets, TLC

VARIABLES
    phase,            \* "boot": mounted, effect not yet run; "running"; "crashed": tree unmounted
    localStorage,     \* [darkMode |-> value, history |-> value]: the two persisted keys
    isDarkMode,       \* useState(true)
    darkClass,        \* 'dark' in document.documentElement.classList
    inputText,        \* useState('')
    isLoading,        \* useState(false)
    error,            \* useState<string | null>(null)
    activeView,       \* useState<ActiveView>('start')
    summary,          \* useState<Summary | null>(null)
    flashcards,       \* useState<Flashcard[]>([])
    quiz,             \* useState<QuizQuestion[]>([])
    revealedAnswers,  \* useState<number[]>([])
    history,          \* useState<HistoryItem[]>([])
    isHistoryOpen,    \* useState(false)
    pending,          \* client calls in flight, in the order they were issued
    reads,            \* FileReader reads in flight
    clock,            \* the time new Date() returns, in ms
    alert             \* the message of the window.alert dialog that is showing, or null

vars == <<phase, localStorage, isDarkMode, darkClass, inputText, isLoading,
          error, activeView, summary, flashcards, quiz, revealedAnswers,
          history, isHistoryOpen, pending, reads, clock, alert>>

(***************************************************************************)
(* Bounds of the model.                                                    *)
(***************************************************************************)
MaxResults == 2    \* results the client delivers in one behaviour
MaxReveals == 2    \* length of revealedAnswers
MaxReads == 1      \* file reads in flight at once

(***************************************************************************)
(* Program constants.                                                      *)
(***************************************************************************)
HistoryCap == 10
ValidationMessage == "Please enter some text or upload a file."
UnknownErrorMessage == "An unknown error occurred."
AlertMessage == "Please upload a .txt file."

(***************************************************************************)
(* JavaScript values.                                                      *)
(***************************************************************************)
Null == [null |-> TRUE]
Str(s) == [str |-> s]
Bool(b) == [bool |-> b]
Arr(s) == [arr |-> s]
IsArray(v) == "arr" \in DOMAIN v

Min(a, b) == IF a < b THEN a ELSE b

\* Array.prototype.slice(0, n)
Slice0(s, n) == SubSeq(s, 1, Min(Len(s), n))

RemoveAt(s, i) == SubSeq(s, 1, i - 1) \o SubSeq(s, i + 1, Len(s))

Whitespace == {" ", "\n", "\t"}

RECURSIVE TrimStart(_)
TrimStart(t) ==
    IF t # <<>> /\ Head(t) \in Whitespace THEN TrimStart(Tail(t)) ELSE t

RECURSIVE TrimEnd(_)
TrimEnd(t) ==
    IF t # <<>> /\ t[Len(t)] \in Whitespace
    THEN TrimEnd(SubSeq(t, 1, Len(t) - 1))
    ELSE t

\* String.prototype.trim
Trim(t) == TrimEnd(TrimStart(t))

\* Date.prototype.toISOString of the instant t ms after the epoch, as
\* <<year, month, day, hour, minute, second, millisecond>>
toISOString(t) ==
    <<1970, 1, 1, 0, 0, (t \div 1000) % 60, t % 1000>>

\* JSON.stringify(v): the JSON text of v
JSONstringify(v) == [json |-> v]

\* JSON.parse(s): the value, or a SyntaxError
JSONparse(s) ==
    IF "json" \in DOMAIN s
    THEN [threw |-> FALSE, value |-> s.json]
    ELSE [threw |-> TRUE, value |-> Null]

\* truthiness of what localStorage.getItem returns: null and '' are falsy
TruthyItem(s) == s # Null /\ s # [raw |-> <<>>]

\* truthiness of a parsed darkMode value
TruthyValue(v) == v = Bool(TRUE)

(***************************************************************************)
(* The environment's inputs: what the user types and uploads, what the     *)
(* generation client answers, what earlier sessions left in the store.     *)
(***************************************************************************)
GeneratedContentType == {"summary", "flashcards", "quiz"}

\* values of the textarea: empty, whitespace only, and a proper text
Texts == {<<>>, <<" ">>, <<"a">>}

\* event.target.files?.[0]: no file, a plain-text file, another file
Files == {Null,
          [type |-> "text/plain", content |-> <<"a">>],
          [type |-> "image/png", content |-> <<"g">>]}

SummaryResults == {[short |-> "s", medium |-> "m", long |-> "l"]}

FlashcardResults == {Arr(<<[question |-> "fq", answer |-> "fa"]>>)}

QuizResults ==
    {Arr(<<[question |-> "q1", options |-> <<"x", "y">>, correctAnswer |-> "x"],
           [question |-> "q2", options |-> <<"u", "v">>, correctAnswer |-> "v"]>>)}

\* what generateSummary / generateFlashcards / generateQuiz may resolve with
ClientResults(type) ==
    CASE type = "summary" -> SummaryResults
      [] type = "flashcards" -> FlashcardResults
      [] type = "quiz" -> QuizResults

AllResults == SummaryResults \cup FlashcardResults \cup QuizResults

\* what the client may reject with: an error with a message, with an empty
\* message, or without a message
Rejections == {[hasMessage |-> TRUE, message |-> "Quota exceeded"],
               [hasMessage |-> TRUE, message |-> ""],
               [hasMessage |-> FALSE, message |-> ""]}

\* the content of an item an earlier session saved, by type
OldContent(type) ==
    CASE type = "flashcards" -> Arr(<<[question |-> "ofq", answer |-> "ofa"]>>)
      [] type = "quiz" ->
           Arr(<<[question |-> "oq", options |-> <<"p", "r">>, correctAnswer |-> "r"]>>)

\* the earlier session made quizzes
OldType(k) == "quiz"

\* the k-th item an earlier session saved
OldItem(k) ==
    [id |-> toISOString(k), timestamp |-> toISOString(k), type |-> OldType(k),
     content |-> OldContent(OldType(k)), sourceText |-> <<"a">>]

\* the n items of an earlier session, newest first
OldHistory(n) == [i \in 1..n |-> OldItem(n + 1 - i)]

StartTime == 20

\* lengths of the history lists an earlier session of this program saved
SavedLengths == {HistoryCap}

\* values of the darkMode key that toggleDarkMode leaves behind in a session
DarkModeWritten == {JSONstringify(Bool(TRUE)), JSONstringify(Bool(FALSE))}

\* values of the history key that this program leaves behind, and text
\* that is not JSON, which the startup load recovers from
HistoryWritten ==
    {Null, [raw |-> <<"#">>]} \cup {JSONstringify(Arr(OldHistory(n))) : n \in SavedLengths}

\* any content of the darkMode key: absent, written by an earlier session,
\* or text that is not JSON
DarkModeAny == {Null} \cup DarkModeWritten \cup {[raw |-> <<"#">>]}

\* any content of the history key: also the empty string, the JSON text of
\* a value that is not an array, and a list longer than the cap
HistoryAny ==
    HistoryWritten \cup {[raw |-> <<>>],
                         JSONstringify([notAnArray |-> TRUE]),
                         JSONstringify(Arr(OldHistory(HistoryCap + 1)))}

(***************************************************************************)
(* The state after construction: the useState initial values, with the     *)
(* mount effect still to run.                                              *)
(***************************************************************************)
Mounted ==
    /\ phase = "boot"
    /\ isDarkMode = Bool(TRUE)
    /\ darkClass = FALSE
    /\ inputText = <<>>
    /\ isLoading = FALSE
    /\ error = Null
    /\ activeView = "start"
    /\ summary = Null
    /\ flashcards = Arr(<<>>)
    /\ quiz = Arr(<<>>)
    /\ revealedAnswers = <<>>
    /\ history = Arr(<<>>)
    /\ isHistoryOpen = FALSE
    /\ pending = <<>>
    /\ reads = <<>>

Init ==
    /\ Mounted
    /\ localStorage \in [darkMode : {Null}, history : HistoryWritten]
    /\ clock = StartTime
    /\ alert = Null

\* a browser that holds no saved list: the history key is absent, or holds
\* text that is not JSON, which the startup load removes
InitNoSaved ==
    /\ Mounted
    /\ localStorage \in [darkMode : {Null}, history : {Null, [raw |-> <<"#">>]}]
    /\ clock = StartTime
    /\ alert = Null

InitAnyStore ==
    /\ Mounted
    /\ localStorage \in [darkMode : DarkModeAny, history : HistoryAny]
    /\ clock = StartTime
    /\ alert = Null

(***************************************************************************)
(* renderContent: what the result panel shows.                             *)
(***************************************************************************)
renderContent ==
    IF isLoading THEN [panel |-> "loader", text |-> ""]
    ELSE IF error # Null /\ activeView = "start"
         THEN [panel |-> "error", text |-> error.str]
    ELSE CASE activeView = "start" -> [panel |-> "start", text |-> ""]
           [] activeView = "summary" ->
                IF summary # Null
                THEN [panel |-> "summary", text |-> ""]
                ELSE [panel |-> "nothing", text |-> ""]
           [] activeView = "flashcards" -> [panel |-> "flashcards", text |-> ""]
           [] activeView = "quiz" -> [panel |-> "quiz", text |-> ""]
           [] OTHER -> [panel |-> "nothing", text |-> ""]

(***************************************************************************)
(* The mount effect: reads the theme flag, then the saved history.         *)
(***************************************************************************)
\* the theme the effect computes from the darkMode key
LoadedDarkMode(savedMode) ==
    IF TruthyItem(savedMode) THEN JSONparse(savedMode).value ELSE Bool(TRUE)

\* JSON.parse(savedMode) is outside the try block: its SyntaxError leaves
\* the effect uncaught
DarkModeThrows(savedMode) ==
    TruthyItem(savedMode) /\ JSONparse(savedMode).threw

\* the history the component holds after the try block of the effect
LoadedHistory(savedHistory, prev) ==
    IF TruthyItem(savedHistory) /\ ~JSONparse(savedHistory).threw
    THEN JSONparse(savedHistory).value
    ELSE prev

\* the history key when the catch block does not remove it
StoredAfterLoadKept(savedHistory) == savedHistory

\* the history key after the try block of the effect
StoredAfterLoad(savedHistory) ==
    IF TruthyItem(savedHistory) /\ JSONparse(savedHistory).threw
    THEN Null
    ELSE savedHistory

Startup ==
    /\ phase = "boot"
    /\ IF DarkModeThrows(localStorage.darkMode)
       THEN /\ phase' = "crashed"
            /\ UNCHANGED <<localStorage, isDarkMode, darkClass, history>>
       ELSE /\ phase' = "running"
            /\ isDarkMode' = LoadedDarkMode(localStorage.darkMode)
            /\ darkClass' = (darkClass \/ TruthyValue(LoadedDarkMode(localStorage.darkMode)))
            /\ history' = LoadedHistory(localStorage.history, history)
            /\ localStorage' = [localStorage EXCEPT
                                  !.history = StoredAfterLoad(localStorage.history)]
    /\ UNCHANGED alert
    /\ UNCHANGED <<inputText, isLoading, error, activeView, summary, flashcards,
                   quiz, revealedAnswers, isHistoryOpen, pending, reads, clock>>

\* the browser reloads the page: the component is constructed afresh, the
\* promises and file reads of the old page are gone, the store stays
Reload ==
    /\ phase \in {"running", "crashed"}
    /\ phase' = "boot"
    /\ isDarkMode' = Bool(TRUE)
    /\ darkClass' = FALSE
    /\ inputText' = <<>>
    /\ isLoading' = FALSE
    /\ error' = Null
    /\ activeView' = "start"
    /\ summary' = Null
    /\ flashcards' = Arr(<<>>)
    /\ quiz' = Arr(<<>>)
    /\ revealedAnswers' = <<>>
    /\ history' = Arr(<<>>)
    /\ isHistoryOpen' = FALSE
    /\ pending' = <<>>
    /\ reads' = <<>>
    /\ alert' = Null
    /\ UNCHANGED <<localStorage, clock>>

(***************************************************************************)
(* The textarea's onChange.                                                *)
(***************************************************************************)
\* if (error) setError(null)
ErrorAfterInput(err) == IF err # Null THEN Null ELSE err

setInput(text) ==
    /\ phase = "running"
    /\ alert = Null
    /\ text # inputText
    /\ inputText' = text
    /\ error' = ErrorAfterInput(error)
    /\ UNCHANGED alert
    /\ UNCHANGED <<phase, localStorage, isDarkMode, darkClass, isLoading,
                   activeView, summary, flashcards, quiz, revealedAnswers,
                   history, isHistoryOpen, pending, reads, clock>>

(***************************************************************************)
(* handleFileChange and the FileReader's onload.                           *)
(***************************************************************************)
\* the test of the type left out: if (file)
IsPlainTextAny(file) == file # Null

\* file && file.type === "text/plain"
IsPlainText(file) == file # Null /\ file.type = "text/plain"

handleFileChange(file) ==
    /\ phase = "running"
    /\ alert = Null
    /\ IF IsPlainText(file)
       THEN /\ Len(reads) < MaxReads
            /\ reads' = Append(reads, file.content)
            /\ alert' = Null
       ELSE /\ reads' = reads
            /\ alert' = IF file # Null THEN Str(AlertMessage) ELSE Null
    /\ UNCHANGED <<phase, localStorage, isDarkMode, darkClass, inputText,
                   isLoading, error, activeView, summary, flashcards, quiz,
                   revealedAnswers, history, isHistoryOpen, pending, clock>>

\* window.alert blocks the page until the user dismisses the dialog
dismissAlert ==
    /\ alert # Null
    /\ alert' = Null
    /\ UNCHANGED <<phase, localStorage, isDarkMode, darkClass, inputText,
                   isLoading, error, activeView, summary, flashcards, quiz,
                   revealedAnswers, history, isHistoryOpen, pending, reads, clock>>

readerOnload(i) ==
    /\ i \in 1..Len(reads)
    /\ phase = "running"
    /\ alert = Null
    /\ inputText' = reads[i]
    /\ reads' = RemoveAt(reads, i)
    /\ UNCHANGED alert
    /\ UNCHANGED <<phase, localStorage, isDarkMode, darkClass, isLoading, error,
                   activeView, summary, flashcards, quiz, revealedAnswers,
                   history, isHistoryOpen, pending, clock>>

(***************************************************************************)
(* addToHistory                                                            *)
(***************************************************************************)
\* the item built from the textarea's value at the time the result arrives
NewItemFromTextarea(type, content, sourceText, t) ==
    [id |-> toISOString(t), timestamp |-> toISOString(t), type |-> type,
     content |-> content, sourceText |-> inputText]

NewItem(type, content, sourceText, t) ==
    [id |-> toISOString(t), timestamp |-> toISOString(t), type |-> type,
     content |-> content, sourceText |-> sourceText]

\* the new item pushed at the end: [...prev, newItem].slice(0, 10)
UpdatedHistoryPushed(newItem, prev) == Slice0(prev \o <<newItem>>, HistoryCap)

\* [newItem, ...prev].slice(0, 10)
UpdatedHistory(newItem, prev) == Slice0(<<newItem>> \o prev, HistoryCap)

(***************************************************************************)
(* handleGenerate: the call up to the await, and its two continuations.    *)
(***************************************************************************)
\* !inputText: the test without trim()
InputMissingUntrimmed(text) == text = <<>>

\* !inputText.trim()
InputMissing(text) == Trim(text) = <<>>

\* e.message, without the fallback
RejectionMessageAsIs(e) == e.message

\* e.message || "An unknown error occurred."
RejectionMessage(e) ==
    IF e.hasMessage /\ e.message # "" THEN e.message ELSE UnknownErrorMessage

\* the result not stored: the slot keeps what it held
SlotAfterResultDropped(slot, type, result, old) == old

\* the content slot `slot` after the branch of `type` stored `result`
SlotAfterResult(slot, type, result, old) == IF type = slot THEN result ELSE old

\* the view set by the first result only
ViewAfterResultFirst(type, old) == IF old = "start" THEN type ELSE old

\* the view after a result of `type` arrived
ViewAfterResult(type, old) == type

\* the loading flag when the finally block is missing
LoadingKept(old) == old

\* the loading flag after the finally block
LoadingAfterSettle(old) == FALSE

handleGenerate(type) ==
    /\ phase = "running"
    /\ alert = Null
    /\ IF InputMissing(inputText)
       THEN /\ error' = Str(ValidationMessage)
            /\ UNCHANGED <<isLoading, revealedAnswers, pending>>
       ELSE /\ clock + Len(pending) < StartTime + MaxResults
            /\ isLoading' = TRUE
            /\ error' = Null
            /\ revealedAnswers' = <<>>
            /\ pending' = Append(pending, [type |-> type, text |-> inputText])
    /\ UNCHANGED alert
    /\ UNCHANGED <<phase, localStorage, isDarkMode, darkClass, inputText,
                   activeView, summary, flashcards, quiz, history,
                   isHistoryOpen, reads, clock>>

\* the client resolves the i-th pending call with `result`; a millisecond
\* has passed since the last result
clientResolves(i, result) ==
    /\ i \in 1..Len(pending)
    /\ phase = "running"
    /\ alert = Null
    /\ result \in ClientResults(pending[i].type)
    /\ pending' = RemoveAt(pending, i)
    /\ clock' = clock + 1
    /\ UNCHANGED alert
    /\ IF IsArray(history)
       THEN /\ summary' = SlotAfterResult("summary", pending[i].type, result, summary)
            /\ flashcards' = SlotAfterResult("flashcards", pending[i].type, result, flashcards)
            /\ quiz' = SlotAfterResult("quiz", pending[i].type, result, quiz)
            /\ history' = Arr(UpdatedHistory(
                   NewItem(pending[i].type, result, pending[i].text, clock + 1), history.arr))
            /\ localStorage' = [localStorage EXCEPT !.history = JSONstringify(
                   Arr(UpdatedHistory(
                       NewItem(pending[i].type, result, pending[i].text, clock + 1), history.arr)))]
            /\ activeView' = ViewAfterResult(pending[i].type, activeView)
            /\ isLoading' = LoadingAfterSettle(isLoading)
            /\ UNCHANGED phase
       ELSE \* [newItem, ...prev] throws inside the state updater, while
            \* React renders: the tree is unmounted and nothing is committed
            /\ phase' = "crashed"
            /\ UNCHANGED <<summary, flashcards, quiz, history, localStorage,
                           activeView, isLoading>>
    /\ UNCHANGED <<isDarkMode, darkClass, inputText, error, revealedAnswers,
                   isHistoryOpen, reads>>

\* the client rejects the i-th pending call with the error e
clientRejects(i, e) ==
    /\ i \in 1..Len(pending)
    /\ phase = "running"
    /\ alert = Null
    /\ pending' = RemoveAt(pending, i)
    /\ error' = Str(RejectionMessage(e))
    /\ isLoading' = LoadingAfterSettle(isLoading)
    /\ UNCHANGED alert
    /\ UNCHANGED <<phase, localStorage, isDarkMode, darkClass, inputText,
                   activeView, summary, flashcards, quiz, revealedAnswers,
                   history, isHistoryOpen, reads, clock>>

(***************************************************************************)
(* The history browser: the header button opens it, the modal closes it,   *)
(* loads one of the listed items or clears the list.                       *)
(***************************************************************************)
openHistory ==
    /\ phase = "running"
    /\ alert = Null
    /\ ~isHistoryOpen
    /\ isHistoryOpen' = TRUE
    /\ UNCHANGED alert
    /\ UNCHANGED <<phase, localStorage, isDarkMode, darkClass, inputText,
                   isLoading, error, activeView, summary, flashcards, quiz,
                   revealedAnswers, history, pending, reads, clock>>

closeHistory ==
    /\ phase = "running"
    /\ alert = Null
    /\ isHistoryOpen
    /\ isHistoryOpen' = FALSE
    /\ UNCHANGED alert
    /\ UNCHANGED <<phase, localStorage, isDarkMode, darkClass, inputText,
                   isLoading, error, activeView, summary, flashcards, quiz,
                   revealedAnswers, history, pending, reads, clock>>

\* the content stored in every slot, whatever the item's type
SlotAfterLoadUntyped(slot, item, old) == item.content

\* the content slot `slot` after loading `item`
SlotAfterLoad(slot, item, old) == IF item.type = slot THEN item.content ELSE old

\* the view reset to the placeholder when an item is loaded
ViewAfterLoadStart(item, old) == "start"

\* setActiveView(item.type)
ViewAfterLoad(item, old) == item.type

\* the items the modal lists: its history prop
ListedItems == IF IsArray(history) THEN history.arr ELSE <<>>

\* the user picks the i-th listed item
loadFromHistory(i) ==
    /\ i \in 1..Len(ListedItems)
    /\ phase = "running"
    /\ alert = Null
    /\ isHistoryOpen
    /\ inputText' = ListedItems[i].sourceText
    /\ summary' = SlotAfterLoad("summary", ListedItems[i], summary)
    /\ flashcards' = SlotAfterLoad("flashcards", ListedItems[i], flashcards)
    /\ quiz' = SlotAfterLoad("quiz", ListedItems[i], quiz)
    /\ activeView' = ViewAfterLoad(ListedItems[i], activeView)
    /\ isHistoryOpen' = FALSE
    /\ UNCHANGED alert
    /\ UNCHANGED <<phase, localStorage, isDarkMode, darkClass, isLoading, error,
                   revealedAnswers, history, pending, reads, clock>>

\* the history and the history key after clearHistory
ClearedHistory(old) == Arr(<<>>)

\* the history key when removeItem is forgotten
StoreKept(old) == old

ClearedStore(old) == Null

clearHistory ==
    /\ phase = "running"
    /\ alert = Null
    /\ isHistoryOpen
    /\ history' = ClearedHistory(history)
    /\ localStorage' = [localStorage EXCEPT !.history = ClearedStore(localStorage.history)]
    /\ UNCHANGED alert
    /\ UNCHANGED <<phase, isDarkMode, darkClass, inputText, isLoading, error,
                   activeView, summary, flashcards, quiz, revealedAnswers,
                   isHistoryOpen, pending, reads, clock>>

(***************************************************************************)
(* The quiz view: clicking an option of question `index`.                  *)
(***************************************************************************)
\* the click replaces the list: [index]
RevealedOnly(prev, index) == <<index>>

\* setRevealedAnswers(prev => [...prev, index])
RevealedAfterClick(prev, index) == Append(prev, index)

revealAnswer(index) ==
    /\ phase = "running"
    /\ alert = Null
    /\ renderContent.panel = "quiz"
    /\ index \in 0..(Len(quiz.arr) - 1)
    /\ Len(revealedAnswers) < MaxReveals
    /\ revealedAnswers' = RevealedAfterClick(revealedAnswers, index)
    /\ UNCHANGED alert
    /\ UNCHANGED <<phase, localStorage, isDarkMode, darkClass, inputText,
                   isLoading, error, activeView, summary, flashcards, quiz,
                   history, isHistoryOpen, pending, reads, clock>>

(***************************************************************************)
(* The specifications.                                                     *)
(***************************************************************************)
Next ==
    \/ Startup
    \/ Reload
    \/ \E text \in Texts : setInput(text)
    \/ \E file \in Files : handleFileChange(file)
    \/ dismissAlert
    \/ \E i \in 1..MaxReads : readerOnload(i)
    \/ \E type \in GeneratedContentType : handleGenerate(type)
    \/ \E i \in 1..MaxResults, result \in AllResults : clientResolves(i, result)
    \/ \E i \in 1..MaxResults, e \in Rejections : clientRejects(i, e)
    \/ openHistory
    \/ closeHistory
    \/ \E i \in 1..(HistoryCap + 1) : loadFromHistory(i)
    \/ clearHistory
    \/ \E index \in 0..1 : revealAnswer(index)

\* the theme was never toggled; the history key holds what this program
\* wrote, or text that is not JSON
Spec == Init /\ [][Next]_vars

\* the store holds anything
SpecAnyStore == InitAnyStore /\ [][Next]_vars

\* every client call is eventually settled, its continuation runs once the
\* page is not blocked by a dialog, and the user dismisses a dialog; the
\* session starts without a saved list, every item it lists is one it made
Settle ==
    \E i \in 1..MaxResults :
        \/ \E result \in AllResults : clientResolves(i, result)
        \/ \E e \in Rejections : clientRejects(i, e)

LiveSpec == InitNoSaved /\ [][Next]_vars /\ SF_vars(Settle) /\ WF_vars(dismissAlert)

(***************************************************************************)
(* The properties.                                                         *)
(***************************************************************************)
Slot(type) ==
    CASE type = "summary" -> summary
      [] type = "flashcards" -> flashcards
      [] type = "quiz" -> quiz

\* the content slot of `type` in the next state
SlotNext(type) ==
    CASE type = "summary" -> summary'
      [] type = "flashcards" -> flashcards'
      [] type = "quiz" -> quiz'

StoredItems == IF "json" \in DOMAIN localStorage.history /\ IsArray(localStorage.history.json)
               THEN localStorage.history.json.arr
               ELSE <<>>

\* C1: once the startup load has run, whatever the store held at startup,
\* the in-memory history and the persisted history each hold at most 10
\* entries.
C1_HistoryAtMostTen ==
    phase = "running" =>
        /\ Len(ListedItems) <= 10
        /\ Len(StoredItems) <= 10

\* C2: a result puts the new item at the head of the history and keeps the
\* earlier items in their order; a list that held 10 items loses exactly its
\* last item.
C2_PrependEvictOldest ==
    [][\A i \in 1..MaxResults, result \in AllResults :
          clientResolves(i, result) =>
              /\ history'.arr[1].content = result
              /\ history'.arr[1].id = toISOString(clock')
              /\ IF Len(history.arr) < 10
                 THEN Tail(history'.arr) = history.arr
                 ELSE /\ Len(history.arr) = 10
                      /\ Tail(history'.arr) = SubSeq(history.arr, 1, 9)]_vars

\* C2 witness: a result arrived on a full list: the item of this session is
\* at the head and the oldest saved item is gone.
C2_Witness ==
    /\ phase = "running"
    /\ Len(ListedItems) = 10
    /\ ListedItems[1].id = toISOString(StartTime + 1)
    /\ ListedItems[10] = OldItem(2)

\* C3: generate on an empty or whitespace-only input sets the validation
\* message and nothing else: no client call, no history entry, the loading
\* flag, the view and the content slots as they were.
C3_ValidationFailure ==
    [][\A type \in GeneratedContentType :
          (handleGenerate(type) /\ Trim(inputText) = <<>>) =>
              /\ error' = Str("Please enter some text or upload a file.")
              /\ UNCHANGED <<pending, history, localStorage, isLoading,
                             activeView, summary, flashcards, quiz>>]_vars

\* C3 witness: the validation message is showing for a whitespace-only input.
C3_Witness ==
    /\ error = Str("Please enter some text or upload a file.")
    /\ inputText = <<" ">>
    /\ pending = <<>>

\* C4: a result is stored in the slot of its type, exactly one item of that
\* type is prepended, with the result as content and the text passed to the
\* client as sourceText, and the view becomes the type.
C4_ResultApplied ==
    [][\A i \in 1..MaxResults, result \in AllResults :
          clientResolves(i, result) =>
              /\ SlotNext(pending[i].type) = result
              /\ history'.arr[1].type = pending[i].type
              /\ history'.arr[1].content = result
              /\ history'.arr[1].sourceText = pending[i].text
              /\ Len(history'.arr) <= Len(history.arr) + 1
              /\ Tail(history'.arr) = SubSeq(history.arr, 1, Len(history'.arr) - 1)
              /\ activeView' = pending[i].type]_vars

\* C4 witness: the result of a call is in place while another call, made
\* for a text the textarea no longer holds, is still pending.
C4_Witness ==
    /\ phase = "running"
    /\ Len(ListedItems) >= 1
    /\ ListedItems[1].id = toISOString(clock)
    /\ clock > StartTime
    /\ ListedItems[1].sourceText # inputText
    /\ activeView = ListedItems[1].type
    /\ Slot(activeView) = ListedItems[1].content
    /\ Len(pending) = 1
    /\ pending[1].text # inputText

\* C5: a rejection sets the error slot to the rejection's message, or to
\* the fallback when the message is empty or missing, and leaves the view,
\* the content slots, the history and the persisted history as they were.
C5_RejectionSetsErrorOnly ==
    [][\A i \in 1..MaxResults, e \in Rejections :
          clientRejects(i, e) =>
              /\ (e.hasMessage /\ e.message # "") => error' = Str(e.message)
              /\ (~e.hasMessage \/ e.message = "") =>
                     error' = Str("An unknown error occurred.")
              /\ UNCHANGED <<activeView, summary, flashcards, quiz, history,
                             localStorage>>]_vars

\* C5 witness: the fallback message is in the error slot while a result of
\* an earlier call is displayed.
C5_Witness ==
    /\ error = Str("An unknown error occurred.")
    /\ activeView = "quiz"
    /\ quiz \in QuizResults

\* C6: a set loading flag is eventually cleared, and it is cleared in the
\* state a settled call leaves, on success and on failure.
C6_LoadingCleared ==
    /\ isLoading ~> ~isLoading
    /\ [][\A i \in 1..MaxResults :
             /\ \A result \in AllResults : clientResolves(i, result) => ~isLoading'
             /\ \A e \in Rejections : clientRejects(i, e) => ~isLoading']_vars

\* C6 witness: a call was rejected and the loading flag is cleared.
C6_Witness ==
    /\ error = Str("Quota exceeded")
    /\ ~isLoading
    /\ pending = <<>>

\* C7: a failed generate (empty input, or a rejection) that leaves nothing
\* loading leaves the panel showing the content of the error slot.
C7_FailureIsRendered ==
    [][((\/ \E type \in GeneratedContentType :
               handleGenerate(type) /\ Trim(inputText) = <<>>
         \/ \E i \in 1..MaxResults, e \in Rejections : clientRejects(i, e))
        /\ ~isLoading') =>
          renderContent' = [panel |-> "error", text |-> error'.str]]_vars

\* C8: loadFromHistory(item) sets the text to item.sourceText, the slot of
\* item.type to item.content and the view to item.type, closes the history
\* browser, and leaves the other two slots, the history and the persisted
\* history as they were.
C8_LoadFromHistory ==
    [][\A i \in 1..11 :
          loadFromHistory(i) =>
              /\ inputText' = history.arr[i].sourceText
              /\ SlotNext(history.arr[i].type) = history.arr[i].content
              /\ activeView' = history.arr[i].type
              /\ ~isHistoryOpen'
              /\ \A type \in GeneratedContentType \ {history.arr[i].type} :
                     SlotNext(type) = Slot(type)
              /\ UNCHANGED <<history, localStorage>>]_vars

\* C8 witness: a saved quiz was loaded; the other slots are empty.
C8_Witness ==
    /\ phase = "running"
    /\ activeView = "quiz"
    /\ quiz = OldContent("quiz")
    /\ summary = Null
    /\ flashcards = Arr(<<>>)
    /\ inputText = <<"a">>
    /\ ~isHistoryOpen

\* C9: clearHistory leaves the in-memory history empty and the history key
\* absent; a reload leaves the store as it is, and the startup load of an
\* absent key yields the empty list.
C9_ClearHistory ==
    [][/\ clearHistory => (history' = Arr(<<>>) /\ localStorage'.history = Null)
       /\ Reload => localStorage' = localStorage
       /\ (Startup /\ localStorage.history = Null) =>
              (phase' = "running" /\ history' = Arr(<<>>))]_vars

\* C9 witness: a list that held saved items (one of them was loaded) is
\* empty, in memory and in the store.
C9_Witness ==
    /\ phase = "running"
    /\ quiz = OldContent("quiz")
    /\ history = Arr(<<>>)
    /\ localStorage.history = Null

\* a value of the history key that is a JSON list of items
WellFormed(saved) == "json" \in DOMAIN saved /\ IsArray(saved.json)

\* C10: when the history key is absent or does not hold a list of items,
\* the startup load leaves the in-memory history empty and the key absent,
\* and no error reaches the error slot or the caller.
C10_MalformedDiscarded ==
    [][(Startup /\ ~DarkModeThrows(localStorage.darkMode)
                /\ ~WellFormed(localStorage.history)) =>
          /\ history' = Arr(<<>>)
          /\ localStorage'.history = Null
          /\ error' = Null
          /\ phase' = "running"]_vars

\* C11: whatever the two keys hold, the startup load ends with the page
\* running, a boolean as theme and a list as history.
C11_StartupNeverCrashes ==
    [][Startup =>
          /\ phase' = "running"
          /\ isDarkMode' \in {Bool(TRUE), Bool(FALSE)}
          /\ IsArray(history')]_vars

\* C12: after the input text is replaced, by typing or by the end of a
\* file read, the error slot is null.
C12_InputClearsError ==
    [][((\E text \in Texts : setInput(text))
        \/ (\E i \in 1..MaxReads : readerOnload(i))) =>
          error' = Null]_vars

\* the questions of the displayed quiz that are drawn with the correctness
\* colours: revealedAnswers.includes(index)
Colored ==
    IF renderContent.panel = "quiz"
    THEN {index \in 0..(Len(quiz.arr) - 1) :
            \E k \in 1..Len(revealedAnswers) : revealedAnswers[k] = index}
    ELSE {}

\* C13: a quiz that a result or loadFromHistory has just put in the quiz
\* slot is displayed with no question coloured.
C13_NewQuizUnrevealed ==
    [][((\E i \in 1..MaxResults, result \in QuizResults : clientResolves(i, result))
        \/ (\E i \in 1..(HistoryCap + 1) :
               loadFromHistory(i) /\ ListedItems[i].type = "quiz")) =>
          Colored' = {}]_vars

\* C14: the upload of a file that is not text/plain raises the alert and
\* changes nothing else; the upload of a text/plain file starts a read and
\* changes nothing else, and the end of the read changes only the input
\* text, which becomes the file's content.
C14_UploadFrame ==
    [][/\ \A file \in Files \ {Null} :
             handleFileChange(file) =>
                 /\ IF file.type = "text/plain"
                    THEN alert' = Null /\ reads' = Append(reads, file.content)
                    ELSE alert' = Str("Please upload a .txt file.") /\ reads' = reads
                 /\ UNCHANGED <<phase, localStorage, isDarkMode, darkClass,
                                inputText, isLoading, error, activeView, summary,
                                flashcards, quiz, revealedAnswers, history,
                                isHistoryOpen, pending, clock>>
       /\ \A i \in 1..MaxReads :
             readerOnload(i) =>
                 /\ inputText' = reads[i]
                 /\ UNCHANGED <<phase, localStorage, isDarkMode, darkClass,
                                isLoading, error, activeView, summary, flashcards,
                                quiz, revealedAnswers, history, isHistoryOpen,
                                pending, clock, alert>>]_vars

\* C14 witness: the alert is showing over a page whose text came from a
\* file (nothing was loaded or generated, and typing would have cleared the
\* validation message).
C14_Witness ==
    /\ alert = Str("Please upload a .txt file.")
    /\ inputText = <<"a">>
    /\ error = Str("Please enter some text or upload a file.")
    /\ quiz = Arr(<<>>)
    /\ clock = StartTime
    /\ reads = <<>>

\* C15: in every state the tree is mounted and the panel is one of the six
\* outputs: the loader exactly when the loading flag is set; otherwise the
\* error exactly when the error slot is non-null in the start view;
\* otherwise the panel of the active view, the summary slot being non-null
\* whenever the view is summary.
C15_ExactlyOnePanel ==
    /\ phase # "crashed"
    /\ renderContent.panel \in
           {"loader", "error", "start", "summary", "flashcards", "quiz"}
    /\ (renderContent.panel = "loader") = isLoading
    /\ ~isLoading =>
           ((renderContent.panel = "error") = (error # Null /\ activeView = "start"))
    /\ (~isLoading /\ ~(error # Null /\ activeView = "start")) =>
           renderContent.panel = activeView
    /\ activeView = "summary" => summary # Null

\* C15 witness: the summary panel is drawn while the error slot holds a
\* message that is not shown.
C15_Witness ==
    /\ renderContent.panel = "summary"
    /\ summary \in SummaryResults
    /\ error # Null
    /\ ~isLoading

\* C16: generate with a valid input is possible while calls are pending and
\* adds its own call to them; each result is applied when it arrives,
\* whatever the order of the requests: it leaves the other calls pending,
\* adds its own item to the history and sets the slot of its type and the
\* view, so that the view and content after the last result are its own.
C16_ConcurrentCalls ==
    /\ [](\A type \in GeneratedContentType :
             (/\ phase = "running"
              /\ alert = Null
              /\ pending # <<>>
              /\ Trim(inputText) # <<>>
              /\ clock + Len(pending) < StartTime + MaxResults) =>
                 ENABLED handleGenerate(type))
    /\ [][/\ \A type \in GeneratedContentType :
               (handleGenerate(type) /\ Trim(inputText) # <<>>) =>
                   pending' = Append(pending, [type |-> type, text |-> inputText])
          /\ \A i \in 1..MaxResults, result \in AllResults :
               clientResolves(i, result) =>
                   /\ pending' = RemoveAt(pending, i)
                   /\ activeView' = pending[i].type
                   /\ SlotNext(pending[i].type) = result
                   /\ history'.arr[1].type = pending[i].type
                   /\ history'.arr[1].content = result
                   /\ Len(history'.arr) = Min(Len(history.arr) + 1, 10)]_vars

\* C16 witness: of two calls in flight at once one has resolved, its result
\* is displayed and heads the history, and the other is still pending.
C16_Witness ==
    /\ phase = "running"
    /\ Len(pending) = 1
    /\ ~isLoading
    /\ clock = StartTime + 1
    /\ ListedItems[1].id = toISOString(clock)
    /\ activeView = ListedItems[1].type
    /\ activeView # pending[1].type

\* C17: the loading flag is set in every state in which a client call is
\* pending.
C17_LoadingWhilePending == pending # <<>> => isLoading

\* the history the store holds: the empty list when the key is absent,
\* otherwise what the key's text denotes
PersistedHistory ==
    IF localStorage.history = Null
    THEN Arr(<<>>)
    ELSE JSONparse(localStorage.history).value

\* C18: once the startup load has run, the persisted history equals the
\* in-memory history.
C18_PersistedEqualsMemory == phase = "running" => PersistedHistory = history

\* C18 witness: a saved quiz was loaded, the list was cleared, and a result
\* arrived: memory and store hold the one new item.
C18_Witness ==
    /\ phase = "running"
    /\ quiz = OldContent("quiz")
    /\ Len(ListedItems) = 1
    /\ ListedItems[1].id = toISOString(clock)
    /\ localStorage.history = JSONstringify(history)

\* the question indices in the list r
RevealedSet(r) == {r[k] : k \in 1..Len(r)}

\* C19: a click on an option of question `index` adds index to the revealed
\* set and removes nothing; apart from generate with a valid input (and the
\* reload of the page, which builds the component anew) no step removes an
\* index from the set.
C19_RevealsOnlyGrow ==
    [][/\ \A index \in 0..1 :
             revealAnswer(index) =>
                 RevealedSet(revealedAnswers') = RevealedSet(revealedAnswers) \cup {index}
       /\ (/\ ~(\E type \in GeneratedContentType :
                   handleGenerate(type) /\ Trim(inputText) # <<>>)
           /\ ~Reload) =>
              RevealedSet(revealedAnswers) \subseteq RevealedSet(revealedAnswers')]_vars

\* C19 witness: both questions of a quiz are revealed, the second click kept
\* the first, and a generate on a blank input has not emptied the set.
C19_Witness ==
    /\ RevealedSet(revealedAnswers) = {0, 1}
    /\ error = Str("Please enter some text or upload a file.")
    /\ activeView = "quiz"

\* C20: once the view is not start, no step of the running page sets it
\* back to start (the reload of the page builds the component anew).
C20_StartOnlyInitial ==
    [][(activeView # "start" /\ ~Reload) => activeView' # "start"]_vars

\* C20 witness: the view left start, and a validation failure, an input
\* edit and clearHistory have happened since.
C20_Witness ==
    /\ activeView = "quiz"
    /\ quiz = OldContent("quiz")
    /\ error = Str("Please enter some text or upload a file.")
    /\ inputText = <<" ">>
    /\ history = Arr(<<>>)

====
